---- MODULE Spec2Model ----
(***************************************************************************)
(* StableDiffusionAITPipeline (ControlNet variant) of                      *)
(* examples/05_stable_diffusion/src/pipeline_stable_diffusion_controlnet_ait.py *)
(*                                                                         *)
(* The pipeline is single threaded: the constructor and every __call__ run *)
(* to completion (a return or a raise) without interleaving, so each is    *)
(* one action.  What a handler does to its external collaborators (the     *)
(* tokenizer, the four compiled modules, the scheduler, torch.randn) is    *)
(* recorded, in program order, in a log of invocation events.              *)
(*                                                                         *)
(* A tensor is modelled by its leading (batch) dimension: a sequence of    *)
(* integers, one per batch row.  Shapes that the code compares are kept as *)
(* tuples.  The compiled networks and the scheduler are external; they are *)
(* deterministic row-wise integer functions of their inputs, chosen        *)
(* injective enough that a change of data flow changes the result.         *)
(***************************************************************************)
EXTENDS Integers, Sequences, FiniteSets, TLC

VARIABLES
    phase,      \* "new" (before __init__), "idle", "called" (a call has ended)
    modules,    \* per compiled module: the path it was loaded from and its life cycle
    ctor,       \* the constructor's arguments and its log of module operations
    batch,      \* self.batch
    args,       \* arguments of the call that has ended (NoArgs when idle)
    outcome,    \* how that call ended: return value or exception
    log,        \* external invocations of that call, in order
    ref         \* the log/outcome of the call this one replays with negative_prompt=None

vars == <<phase, modules, ctor, batch, args, outcome, log, ref>>

\* ------------------------------------------------------------------ bounds
MaxBatch == 2   \* longest prompt / negative_prompt list
MaxSteps == 2   \* largest num_inference_steps

\* ------------------------------------------------------------ Python values
None == [py |-> "None"]
PyStr(s) == [py |-> "str", v |-> s]
PyList(l) == [py |-> "list", v |-> l]
PyTuple == [py |-> "tuple", v |-> <<>>]   \* (): neither a str nor a list

IsStr(x) == x.py = "str"
IsList(x) == x.py = "list"
IsNone(x) == x.py = "None"
PyLen(x) == Len(x.v)

\* texts are numbered: prompts 1.., negative prompts 11.., the empty string 0
EmptyText == 0
PromptList(n) == PyList([i \in 1..n |-> i])
NegList(n) == PyList([i \in 1..n |-> 10 + i])

Prompts == {PyStr(1), PyTuple} \cup {PromptList(n) : n \in 1..MaxBatch}
NegativePrompts == {None, PyStr(11), PyStr(12), PyTuple} \cup {NegList(n) : n \in 1..MaxBatch}

Max(a, b) == IF a >= b THEN a ELSE b

\* ------------------------------------------------------------------ paths
\* A path is its sequence of components; "" is what follows a trailing "/".
TmpSlash == <<"tmp", "">>          \* "tmp/"   (the default workdir)
DotTmp == <<".", "tmp">>           \* "./tmp"
OutSlash == <<"out", "">>          \* "out/"
Workdirs == {TmpSlash, DotTmp, OutSlash}

\* os.path.join(a, b) for a relative b
PathJoin(a, b) ==
    IF Len(a) > 0 /\ a[Len(a)] = "" THEN SubSeq(a, 1, Len(a) - 1) \o b ELSE a \o b

RECURSIVE NormPath(_)
\* the file a relative path names: "." and empty components dropped
NormPath(p) ==
    IF p = <<>> THEN <<>>
    ELSE IF p[1] \in {".", ""} THEN NormPath(Tail(p))
    ELSE <<p[1]>> \o NormPath(Tail(p))

\* ------------------------------------------------------------ constructor
ControlNetName == "ControlNetModel"
ClipName == "CLIPTextModel"
UnetName == "ControlNetUNet2DConditionModel"
VaeName == "AutoencoderKL"
ModuleNames == {ControlNetName, ClipName, UnetName, VaeName}

HubIds == {"runwayml/stable-diffusion-v1-5"}
CkptFile == PyStr(100)
Ckpts == {None, CkptFile}

\* init_ait_module: Model(os.path.join(workdir, model_name, "test.so"))
init_ait_module(model_name, workdir) ==
    [op |-> "load", mod |-> model_name,
     path |-> PathJoin(PathJoin(workdir, <<model_name>>), <<"test.so">>)]

set_many_constants_with_tensors(model_name, params) ==
    [op |-> "bind", mod |-> model_name, params |-> params]

fold_constants(model_name) == [op |-> "fold", mod |-> model_name]

\* where the parameters bound to a module come from
Weights(hf_hub_or_path, ckpt, part) ==
    IF IsNone(ckpt) THEN <<"hub", hf_hub_or_path, part>> ELSE <<"ckpt", part>>

\* lines 91-99: the conditioning network, always from "./tmp" and from the hub
InitControlNet ==
    << init_ait_module(ControlNetName, DotTmp),
       set_many_constants_with_tensors(ControlNetName,
            <<"hub", "lllyasviel/sd-controlnet-canny", "controlnet">>),
       fold_constants(ControlNetName) >>

\* lines 100-121, 126-145, 150-202: text encoder, denoising network, decoder
InitFromWorkdir(model_name, part, hf_hub_or_path, ckpt, workdir) ==
    << init_ait_module(model_name, workdir),
       set_many_constants_with_tensors(model_name, Weights(hf_hub_or_path, ckpt, part)),
       fold_constants(model_name) >>

\* the module operations __init__ performs, in program order
InitLog(hf_hub_or_path, ckpt, workdir) ==
    (IF IsNone(ckpt) THEN <<>> ELSE <<[op |-> "torch_load", file |-> ckpt]>>)
    \o InitControlNet
    \o InitFromWorkdir(ClipName, "text_encoder", hf_hub_or_path, ckpt, workdir)
    \o InitFromWorkdir(UnetName, "unet", hf_hub_or_path, ckpt, workdir)
    \o InitFromWorkdir(VaeName, "vae", hf_hub_or_path, ckpt, workdir)

Absent == [path |-> <<>>, state |-> "absent"]

\* a compiled module's life cycle under one runtime operation
ModuleStep(m, e) ==
    CASE e.op = "load" -> [path |-> e.path, state |-> "loaded"]
      [] e.op = "bind" /\ m.state = "loaded" -> [m EXCEPT !.state = "bound"]
      [] e.op = "fold" /\ m.state = "bound" -> [m EXCEPT !.state = "folded"]
      [] OTHER -> m

RECURSIVE ModuleAfter(_, _, _)
ModuleAfter(m, l, name) ==
    IF l = <<>> THEN m
    ELSE ModuleAfter(IF l[1].op # "torch_load" /\ l[1].mod = name
                        THEN ModuleStep(m, l[1]) ELSE m,
                     Tail(l), name)

NoCtor == [hf_hub_or_path |-> "", ckpt |-> None, workdir |-> <<>>, log |-> <<>>]
NoArgs == [none |-> TRUE]
NoOutcome == [status |-> "none"]
NoRef == [active |-> FALSE]

\* before __init__: no module, no self.batch
InitNew ==
    /\ phase = "new"
    /\ modules = [m \in ModuleNames |-> Absent]
    /\ ctor = NoCtor
    /\ batch = 0
    /\ args = NoArgs
    /\ outcome = NoOutcome
    /\ log = <<>>
    /\ ref = NoRef

\* what __init__ leaves behind: the modules and self.batch = 1 (line 212)
CtorRecord(hf_hub_or_path, ckpt, workdir) ==
    [hf_hub_or_path |-> hf_hub_or_path, ckpt |-> ckpt, workdir |-> workdir,
     log |-> InitLog(hf_hub_or_path, ckpt, workdir)]
ModulesAfter(l) == [m \in ModuleNames |-> ModuleAfter(Absent, l, m)]
InitialBatch == 1

\* StableDiffusionAITPipeline.__init__
Construct(hf_hub_or_path, ckpt, workdir) ==
    /\ phase = "new"
    /\ ctor' = CtorRecord(hf_hub_or_path, ckpt, workdir)
    /\ modules' = ModulesAfter(InitLog(hf_hub_or_path, ckpt, workdir))
    /\ batch' = InitialBatch
    /\ phase' = "idle"
    /\ UNCHANGED <<args, outcome, log, ref>>

\* a pipeline constructed with the default workdir and no checkpoint
Init ==
    /\ phase = "idle"
    /\ \E hf \in HubIds :
        /\ ctor = CtorRecord(hf, None, TmpSlash)
        /\ modules = ModulesAfter(InitLog(hf, None, TmpSlash))
    /\ batch = InitialBatch
    /\ args = NoArgs
    /\ outcome = NoOutcome
    /\ log = <<>>
    /\ ref = NoRef

\* ------------------------------------------------- external collaborators
\* A row that torch.empty allocated and no module wrote.  Whatever is
\* computed from an unwritten row is itself unwritten.
Uninit == -1

Row(x, i) == IF i \in DOMAIN x THEN x[i] ELSE Uninit
Written(vals) == Uninit \notin vals

\* CLIPTokenizer: one row of input ids per text
ModelMaxLength == 77
Tokenize(texts) == [i \in DOMAIN texts |-> 100 + texts[i]]

ClipRow(id) == IF Written({id}) THEN 2 * id + 1 ELSE Uninit
CtrlRow(x, e, t, c, k) ==
    IF Written({x, e}) THEN x + e + t + c + k ELSE Uninit
UnetRow(x, e, t, d, m) ==
    IF Written({x, e, d, m}) THEN x + 3 * e + t + d + m ELSE Uninit
VaeRow(x) == IF Written({x}) THEN 2 * x + 1 ELSE Uninit

\* EulerDiscreteScheduler: set_timesteps takes no offset, step takes a
\* generator and no eta
SchedulerAcceptsOffset == FALSE
SchedulerAcceptsEta == FALSE
SchedulerAcceptsGenerator == TRUE
InitNoiseSigma == 3
Timesteps(n) == [i \in 1..n |-> 10 * (n + 1 - i)]
ScaleRow(x, t) == IF Written({x}) THEN 2 * x + t ELSE Uninit
StepRow(noise, t, x) == IF Written({noise, x}) THEN x + noise + t ELSE Uninit

\* whether an elementwise torch operation on tensors of a and b rows broadcasts
Broadcastable(a, b) == a = b \/ a = 1 \/ b = 1
BRow(x, i) == IF Len(x) = 1 THEN x[1] ELSE x[i]

\* torch.cat, Tensor.chunk(2), along the batch dimension
Cat(xs) == xs[1] \o xs[2]
Chunk2(x) ==
    LET c == (Len(x) + 1) \div 2 IN <<SubSeq(x, 1, c), SubSeq(x, c + 1, Len(x))>>

\* ------------------------------------------------------ inference methods
\* clip_inference (lines 281-296): the output buffer has self.batch rows
clip_inference(self_batch, input_ids) ==
    LET out == [i \in 1..self_batch |-> ClipRow(Row(input_ids, i))]
    IN [op |-> "clip", input_ids |-> input_ids, out |-> out]

\* controlnet_inference (lines 222-244): buffers of the module's maximum
\* shape; ys[:-1] are the down block residuals and ys[-1] the mid block one
NumControlNetOutputs == 2
ControlNetMaxRows == 2 * MaxBatch
controlnet_inference(latent_model_input, t, encoder_hidden_states, controlnet_cond) ==
    LET ys == [k \in 1..NumControlNetOutputs |->
                 [i \in 1..ControlNetMaxRows |->
                    IF i \in DOMAIN latent_model_input
                    THEN CtrlRow(latent_model_input[i], Row(encoder_hidden_states, i),
                                 t, controlnet_cond, k)
                    ELSE Uninit]]
    IN [op |-> "controlnet", t |-> t, input0 |-> latent_model_input,
        input2 |-> encoder_hidden_states, input3 |-> controlnet_cond,
        down |-> SubSeq(ys, 1, Len(ys) - 1), mid |-> ys[Len(ys)]]

\* unet_inference (lines 246-279): the output buffer has self.batch * 2 rows
unet_inference(self_batch, latent_model_input, t, encoder_hidden_states, down_block_residuals, mid_block_residual) ==
    LET out == [i \in 1..(self_batch * 2) |->
                  IF i \in DOMAIN latent_model_input
                  THEN UnetRow(latent_model_input[i], Row(encoder_hidden_states, i), t,
                               Row(down_block_residuals[1], i), Row(mid_block_residual, i))
                  ELSE Uninit]
    IN [op |-> "unet", t |-> t, input0 |-> latent_model_input,
        input2 |-> encoder_hidden_states, down |-> down_block_residuals,
        mid |-> mid_block_residual, out |-> out]

\* vae_inference (lines 298-311): the output buffer has self.batch * 2 rows
vae_inference(self_batch, vae_input) ==
    LET out == [i \in 1..(self_batch * 2) |-> VaeRow(Row(vae_input, i))]
    IN [op |-> "vae", input |-> vae_input, out |-> out]

\* ---------------------------------------------------------------- __call__
Raise(type, at) == [type |-> type, at |-> at]
NoExc == [type |-> "", at |-> ""]

\* lines 376-383
PromptIsValid(prompt) == IsStr(prompt) \/ IsList(prompt)
BatchSize(prompt) == IF IsStr(prompt) THEN 1 ELSE PyLen(prompt)
\* mutant: the wrong exception class
PromptTypeError_AsTypeError == Raise("TypeError", "prompt type")
PromptTypeError == Raise("ValueError", "prompt type")

\* mutant: "and" for "or"
DimsNotDivisible_Both(height, width) == height % 8 # 0 /\ width % 8 # 0
\* lines 385-388
DimsNotDivisible(height, width) == height % 8 # 0 \/ width % 8 # 0
DimensionError == Raise("ValueError", "height and width")

\* mutant: guidance already at a scale of 1
do_classifier_free_guidance_AtOne(guidance_scale) == guidance_scale >= 1
\* line 407
do_classifier_free_guidance(guidance_scale) == guidance_scale > 1

\* what the tokenizer is given for a str or a list of str
Texts(p) == IF IsStr(p) THEN <<p.v>> ELSE p.v

\* the tokenizer call of lines 393-399 and 429-435
tokenizer(texts, max_length) ==
    [op |-> "tokenizer", texts |-> texts, max_length |-> max_length,
     input_ids |-> Tokenize(texts)]

\* mutant: "is" for "is not"
NegativeTypeDiffers_Inverted(prompt, negative_prompt) == prompt.py = negative_prompt.py
\* line 414: type(prompt) is not type(negative_prompt)
NegativeTypeDiffers(prompt, negative_prompt) == prompt.py # negative_prompt.py

\* mutant: only a longer negative_prompt is rejected
NegativeLengthDiffers_OnlyLonger(batch_size, negative_prompt) == batch_size < PyLen(negative_prompt)
\* line 421
NegativeLengthDiffers(batch_size, negative_prompt) == batch_size # PyLen(negative_prompt)

\* lines 412-428: uncond_tokens, or the exception raised instead
UncondTokens(prompt, batch_size, negative_prompt) ==
    IF IsNone(negative_prompt)
    THEN [exc |-> NoExc, tokens |-> [i \in 1..batch_size |-> EmptyText]]
    ELSE IF NegativeTypeDiffers(prompt, negative_prompt)
    THEN [exc |-> Raise("TypeError", "negative_prompt type"), tokens |-> <<>>]
    ELSE IF IsStr(negative_prompt)
    THEN [exc |-> NoExc, tokens |-> <<negative_prompt.v>>]
    ELSE IF NegativeLengthDiffers(batch_size, negative_prompt)
    THEN [exc |-> Raise("ValueError", "negative_prompt batch size"), tokens |-> <<>>]
    ELSE [exc |-> NoExc, tokens |-> negative_prompt.v]

\* mutant: the prompt embeddings first
CatEmbeddings_TextFirst(uncond_embeddings, text_embeddings) ==
    Cat(<<text_embeddings, uncond_embeddings>>)
\* line 443: torch.cat([uncond_embeddings, text_embeddings])
CatEmbeddings(uncond_embeddings, text_embeddings) ==
    Cat(<<uncond_embeddings, text_embeddings>>)

\* mutant: the image size, not the latent size
LatentsShape_Pixels(batch_size, height, width) == <<batch_size, 4, height, width>>
\* line 451
LatentsShape(batch_size, height, width) == <<batch_size, 4, height \div 8, width \div 8>>

Tensor(shape, rows) == [py |-> "tensor", shape |-> shape, rows |-> rows]

\* the value torch.randn draws: one unknown, the same in every row
Sample == 1

\* torch.randn(latents_shape, generator=generator, device=...)
randn(shape, generator) ==
    [op |-> "randn", shape |-> shape, generator |-> generator,
     out |-> [i \in 1..shape[1] |-> Sample]]

\* lines 466-473
set_timesteps(num_inference_steps) ==
    [op |-> "set_timesteps", n |-> num_inference_steps,
     offset |-> IF SchedulerAcceptsOffset THEN 1 ELSE 0,
     timesteps |-> Timesteps(num_inference_steps)]

\* lines 481-492
ExtraStepKwargs(eta, generator) ==
    [eta |-> IF SchedulerAcceptsEta THEN [py |-> "float", v |-> eta] ELSE None,
     generator |-> IF SchedulerAcceptsGenerator THEN generator ELSE None]

\* lines 496-498
LatentModelInput(latents, guidance_scale) ==
    IF do_classifier_free_guidance(guidance_scale) THEN Cat(<<latents, latents>>) ELSE latents

scale_model_input(sample, t) ==
    [op |-> "scale_model_input", t |-> t, sample |-> sample,
     out |-> [i \in DOMAIN sample |-> ScaleRow(sample[i], t)]]

\* lines 515-519
Guidance(noise_pred, guidance_scale) ==
    IF do_classifier_free_guidance(guidance_scale)
    THEN LET noise_pred_uncond == Chunk2(noise_pred)[1]
             noise_pred_text == Chunk2(noise_pred)[2]
         IN [i \in DOMAIN noise_pred_uncond |->
               IF Written({noise_pred_uncond[i], Row(noise_pred_text, i)})
               THEN noise_pred_uncond[i]
                      + guidance_scale * (noise_pred_text[i] - noise_pred_uncond[i])
               ELSE Uninit]
    ELSE noise_pred

\* scheduler.step(noise_pred, t, latents, **extra_step_kwargs): elementwise
\* on model_output and sample, which torch broadcasts or rejects
step(model_output, t, sample, kwargs) ==
    LET ok == Broadcastable(Len(model_output), Len(sample))
        n == Max(Len(model_output), Len(sample))
    IN [op |-> "step", t |-> t, model_output |-> model_output, sample |-> sample,
        kwargs |-> kwargs, ok |-> ok,
        prev_sample |-> IF ok
                        THEN [i \in 1..n |-> StepRow(BRow(model_output, i), t, BRow(sample, i))]
                        ELSE <<>>]

\* line 475: latents * self.scheduler.init_noise_sigma
InitNoiseRow(x) == IF Written({x}) THEN x * InitNoiseSigma ELSE Uninit
ScaleInitialLatents(latents) == [i \in DOMAIN latents |-> InitNoiseRow(latents[i])]

\* line 526: 1 / 0.18215 * latents
UnscaleRow(x) == IF Written({x}) THEN (x * 10000) \div 1821 ELSE Uninit
Unscale(latents) == [i \in DOMAIN latents |-> UnscaleRow(latents[i])]

\* line 531: (image / 2 + 0.5).clamp(0, 1), in units of one half
ImageRow(x) ==
    IF ~Written({x}) THEN Uninit
    ELSE IF x + 1 < 0 THEN 0 ELSE IF x + 1 > 2 THEN 2 ELSE x + 1

PostProcess(image) == [i \in DOMAIN image |-> ImageRow(image[i])]

\* lines 532-537: a numpy array, or the list numpy_to_pil makes of it
Images(image, output_type) ==
    IF output_type = "pil" THEN PyList(image) ELSE [py |-> "ndarray", v |-> image]

\* line 534
has_nsfw_concept == None

\* lines 539-544
Output(image, nsfw, return_dict) ==
    IF ~return_dict
    THEN [py |-> "tuple", v |-> <<image, nsfw>>]
    ELSE [py |-> "StableDiffusionPipelineOutput", images |-> image,
          nsfw_content_detected |-> nsfw]

Returned(value) == [status |-> "returned", exc |-> NoExc, value |-> value]
Raised(exc) == [status |-> "raised", exc |-> exc, value |-> None]

\* The local variables of one __call__ and what it has invoked so far.  A
\* stage of __call__ takes the frame the stages before it left and gives
\* the frame it leaves; once a stage has raised, the later ones do nothing.
Frame(self_batch, a) ==
    [a |-> a, batch |-> self_batch, exc |-> NoExc, log |-> <<>>,
     batch_size |-> 0, text_embeddings |-> <<>>, latents |-> <<>>,
     timesteps |-> <<>>, latent_model_input |-> <<>>,
     down_block_residuals |-> <<>>, mid_block_residual |-> <<>>,
     noise_pred |-> <<>>, image |-> <<>>]

Running(f) == f.exc = NoExc
Raising(f, exc) == [f EXCEPT !.exc = exc]

\* lines 376-390: the two checks, then self.batch = batch_size
CheckInputs(f) ==
    IF ~PromptIsValid(f.a.prompt) THEN Raising(f, PromptTypeError)
    ELSE IF DimsNotDivisible(f.a.height, f.a.width) THEN Raising(f, DimensionError)
    ELSE [f EXCEPT !.batch_size = BatchSize(f.a.prompt),
                   !.batch = BatchSize(f.a.prompt)]

\* the tokenizer, then clip_inference on its input ids
Encode(self_batch, texts) ==
    LET input == tokenizer(texts, ModelMaxLength)
        clip == clip_inference(self_batch, input.input_ids)
    IN [log |-> <<input, clip>>, out |-> clip.out]

\* lines 392-400: text_embeddings
PromptEmbeddings(f) ==
    IF ~Running(f) THEN f
    ELSE LET e == Encode(f.batch, Texts(f.a.prompt))
         IN [f EXCEPT !.log = @ \o e.log, !.text_embeddings = e.out]

\* lines 407-443: under guidance, the unconditional embeddings before them
UncondEmbeddings(f) ==
    IF ~Running(f) \/ ~do_classifier_free_guidance(f.a.guidance_scale) THEN f
    ELSE LET u == UncondTokens(f.a.prompt, f.batch_size, f.a.negative_prompt) IN
         IF u.exc # NoExc THEN Raising(f, u.exc)
         ELSE LET e == Encode(f.batch, u.tokens)
              IN [f EXCEPT !.log = @ \o e.log,
                           !.text_embeddings = CatEmbeddings(e.out, @)]

\* lines 451-463: the initial latents, sampled or supplied
InitialLatents(f) ==
    IF ~Running(f) THEN f
    ELSE IF IsNone(f.a.latents)
    THEN LET r == randn(LatentsShape(f.batch_size, f.a.height, f.a.width), f.a.generator)
         IN [f EXCEPT !.log = Append(@, r), !.latents = r.out]
    ELSE IF f.a.latents.shape # LatentsShape(f.batch_size, f.a.height, f.a.width)
    THEN Raising(f, Raise("ValueError", "latents shape"))
    ELSE [f EXCEPT !.latents = f.a.latents.rows]

\* lines 466-475: the schedule, and the latents scaled for it
SetTimesteps(f) ==
    IF ~Running(f) THEN f
    ELSE LET s == set_timesteps(f.a.num_inference_steps)
         IN [f EXCEPT !.log = Append(@, s), !.timesteps = s.timesteps,
                      !.latents = ScaleInitialLatents(@)]

\* lines 496-499
RoundScale(f, t) ==
    LET s == scale_model_input(LatentModelInput(f.latents, f.a.guidance_scale), t)
    IN [f EXCEPT !.log = Append(@, s), !.latent_model_input = s.out]

\* lines 500-502
RoundControlNet(f, t) ==
    LET c == controlnet_inference(f.latent_model_input, t, f.text_embeddings, f.a.control_cond)
    IN [f EXCEPT !.log = Append(@, c), !.down_block_residuals = c.down,
                 !.mid_block_residual = c.mid]

\* lines 504-519
RoundUnet(f, t) ==
    LET u == unet_inference(f.batch, f.latent_model_input, t, f.text_embeddings,
                            f.down_block_residuals, f.mid_block_residual)
    IN [f EXCEPT !.log = Append(@, u),
                 !.noise_pred = Guidance(u.out, f.a.guidance_scale)]

\* lines 521-523
RoundStep(f, t) ==
    LET st == step(f.noise_pred, t, f.latents, ExtraStepKwargs(f.a.eta, f.a.generator))
    IN IF st.ok
       THEN [f EXCEPT !.log = Append(@, st), !.latents = st.prev_sample]
       ELSE [f EXCEPT !.log = Append(@, st), !.exc = Raise("RuntimeError", "scheduler.step")]

\* lines 496-523: one round of the denoising loop
DenoiseRound(f, t) == RoundStep(RoundUnet(RoundControlNet(RoundScale(f, t), t), t), t)

RECURSIVE DenoiseLoop_SkipLast(_, _)
\* mutant: the last timestep of the schedule is left out
DenoiseLoop_SkipLast(f, k) ==
    IF ~Running(f) \/ k >= Len(f.timesteps) THEN f
    ELSE DenoiseLoop_SkipLast(DenoiseRound(f, f.timesteps[k]), k + 1)

RECURSIVE DenoiseLoop(_, _)
\* line 494: for t in self.scheduler.timesteps, from the k-th on
DenoiseLoop(f, k) ==
    IF ~Running(f) \/ k > Len(f.timesteps) THEN f
    ELSE DenoiseLoop(DenoiseRound(f, f.timesteps[k]), k + 1)

\* lines 526-537: the decoder and the post-processing of its output
Decode(f) ==
    IF ~Running(f) THEN f
    ELSE LET vae == vae_inference(f.batch, Unscale(f.latents))
         IN [f EXCEPT !.log = Append(@, vae),
                      !.image = Images(PostProcess(vae.out), f.a.output_type)]

\* lines 539-544, or the exception that ended the call
Outcome(f) ==
    IF Running(f) THEN Returned(Output(f.image, has_nsfw_concept, f.a.return_dict))
    ELSE Raised(f.exc)

Result(f) == [batch |-> f.batch, outcome |-> Outcome(f), log |-> f.log]

\* __call__ (lines 314-544) on a pipeline whose self.batch is self_batch:
\* the new self.batch, how the call ends, and what it invoked
RunCall(self_batch, a) ==
    Result(Decode(DenoiseLoop(SetTimesteps(InitialLatents(UncondEmbeddings(
        PromptEmbeddings(CheckInputs(Frame(self_batch, a)))))), 1)))

\* ------------------------------------------------------------ the inputs
Heights == {8, 12}
Widths == {8, 12, 16}
GuidanceScales == {0, 1, 2, 3}
Generators == {None, [py |-> "Generator", seed |-> 42]}
ControlCond == 5
OutputTypes == {"pil", "numpy"}

\* caller-supplied latents: every batch size, for a width of 8 and of 16
SuppliedShapes == {<<b, 4, 1, w>> : b \in 1..MaxBatch, w \in 1..2}
SuppliedLatents == {Tensor(sh, [i \in 1..sh[1] |-> 20 + i]) : sh \in SuppliedShapes}

CallArgs ==
    [prompt : Prompts, control_cond : {ControlCond}, height : Heights, width : Widths,
     num_inference_steps : 1..MaxSteps, guidance_scale : GuidanceScales,
     negative_prompt : NegativePrompts, eta : {0}, generator : Generators,
     latents : {None} \cup SuppliedLatents, output_type : OutputTypes,
     return_dict : BOOLEAN]

\* calls that leave every optional argument but the guidance scale at its default
PlainCallArgs ==
    {a \in CallArgs : /\ a.height = 8 /\ a.width = 8
                      /\ IsNone(a.negative_prompt) /\ IsNone(a.generator)
                      /\ IsNone(a.latents)
                      /\ a.output_type = "pil" /\ a.return_dict}

\* ---------------------------------------------------------------- actions
\* how a call that ran as r leaves the pipeline
Ends(r) ==
    /\ batch' = r.batch
    /\ outcome' = r.outcome
    /\ log' = r.log

\* pipe(prompt, control_cond, ...): one whole call, to its return or raise
Call(a) ==
    /\ phase = "idle"
    /\ Ends(RunCall(batch, a))
    /\ args' = a
    /\ phase' = "called"
    /\ ref' = NoRef
    /\ UNCHANGED <<modules, ctor>>

\* the caller takes the result; the call's frame is gone
Finish ==
    /\ phase = "called"
    /\ phase' = "idle"
    /\ args' = NoArgs
    /\ outcome' = NoOutcome
    /\ log' = <<>>
    /\ ref' = NoRef
    /\ UNCHANGED <<modules, ctor, batch>>

WithoutNegativePrompt(a) == [a EXCEPT !.negative_prompt = None]

\* an unguided call (guidance_scale <= 1) made once more with the same
\* arguments, except negative_prompt=None
Replay ==
    /\ phase = "called"
    /\ ~ref.active
    /\ args.guidance_scale <= 1
    /\ Ends(RunCall(batch, WithoutNegativePrompt(args)))
    /\ args' = WithoutNegativePrompt(args)
    /\ ref' = [active |-> TRUE, negative_prompt |-> args.negative_prompt,
               outcome |-> outcome, log |-> log]
    /\ UNCHANGED <<phase, modules, ctor>>

Next ==
    \/ phase = "idle" /\ \E a \in CallArgs : Call(a)
    \/ Replay
    \/ Finish

Spec == Init /\ [][Next]_vars

\* the constructor with every argument, followed by plain calls
NextInit ==
    \/ \E hf \in HubIds, ckpt \in Ckpts, workdir \in Workdirs : Construct(hf, ckpt, workdir)
    \/ phase = "idle" /\ \E a \in PlainCallArgs : Call(a)
    \/ Finish

SpecInit == InitNew /\ [][NextInit]_vars

\* --------------------------------------------------- map_controlnet_params
MaxParams == 2   \* most named parameters of a model
MaxDim == 2      \* largest size of the dimension that varies

\* A name is the sequence of its words and separators: "conv_in.weight" is
\* <<"conv", "_", "in", ".", "weight">>.  No word holds a separator.
CondName ==
    <<"controlnet", "_", "cond", "_", "embedding", ".", "conv", "_", "in", ".", "weight">>
FfProjWeight == <<"ff", ".", "net", ".", "0", ".", "proj", ".", "weight">>
FfProjBias == <<"ff", ".", "net", ".", "0", ".", "proj", ".", "bias">>
CondKey ==
    <<"controlnet", "_", "cond", "_", "embedding", "_", "conv", "_", "in", "_", "weight">>
ArangeKey == <<"arange">>

ParamNames ==
    { CondName,
      <<"blk", ".">> \o FfProjWeight,
      <<"blk", ".">> \o FfProjBias,
      <<"blk", ".", "ff", ".", "net", ".", "0", ".", "gate", ".", "weight">>,
      <<"conv", ".", "weight">>,
      <<"conv", "_", "weight">>,
      ArangeKey }

\* shapes of rank 0, 1, 2 and 4
Shapes ==
    {<<>>} \cup {<<d>> : d \in 1..MaxDim} \cup {<<d, 2>> : d \in 1..MaxDim}
           \cup {<<1, d, 2, 1>> : d \in 1..MaxDim}

\* the indices of a tensor of shape sh
Idx(sh) ==
    {i \in [DOMAIN sh -> 1..(MaxDim + 1)] : \A j \in DOMAIN sh : i[j] <= sh[j]}

\* a parameter's tensor: every element is known by where it came from
ParamTensor(key, sh) ==
    [shape |-> sh, at |-> [i \in Idx(sh) |-> [of |-> key, i |-> i]]]
Zero == [of |-> <<>>, i |-> <<>>]

NamedParameters ==
    {[key |-> k, arr |-> ParamTensor(k, sh)] : k \in ParamNames, sh \in Shapes}

\* dict(pt_mod.named_parameters()): distinct names, in the module's order
ParamLists ==
    {l \in UNION {[1..n -> NamedParameters] : n \in 0..MaxParams} :
        \A i, j \in DOMAIN l : i # j => l[i].key # l[j].key}

\* key.replace(".", "_")
Underscored(key) == [j \in DOMAIN key |-> IF key[j] = "." THEN "_" ELSE key[j]]
\* .replace("proj", "gate")
Gated(key) == [j \in DOMAIN key |-> IF key[j] = "proj" THEN "gate" ELSE key[j]]
\* key.endswith(suffix)
EndsWith(key, suffix) ==
    /\ Len(key) >= Len(suffix)
    /\ SubSeq(key, Len(key) - Len(suffix) + 1, Len(key)) = suffix

\* mutant: NCHW to NWCH
Permute0231_As0312(t) ==
    [shape |-> <<t.shape[1], t.shape[4], t.shape[2], t.shape[3]>>,
     at |-> [i \in Idx(<<t.shape[1], t.shape[4], t.shape[2], t.shape[3]>>) |->
               t.at[<<i[1], i[3], i[4], i[2]>>]]]
\* line 42: arr.permute((0, 2, 3, 1)).contiguous()
Permute0231(t) ==
    [shape |-> <<t.shape[1], t.shape[3], t.shape[4], t.shape[2]>>,
     at |-> [i \in Idx(<<t.shape[1], t.shape[3], t.shape[4], t.shape[2]>>) |->
               t.at[<<i[1], i[4], i[2], i[3]>>]]]

\* rows a..b of t along dimension 0
Rows(t, a, b) ==
    [shape |-> [t.shape EXCEPT ![1] = b - a + 1],
     at |-> [i \in Idx([t.shape EXCEPT ![1] = b - a + 1]) |->
               t.at[[i EXCEPT ![1] = @ + a - 1]]]]

\* arr.chunk(2, dim=0) of a tensor of rank >= 1: chunks of ceil(n / 2) rows
ChunkRows(n) == (n + 1) \div 2
Chunk(t) ==
    IF t.shape[1] <= ChunkRows(t.shape[1]) THEN <<t>>
    ELSE <<Rows(t, 1, ChunkRows(t.shape[1])),
           Rows(t, ChunkRows(t.shape[1]) + 1, t.shape[1])>>

\* torch.nn.functional.pad(t, (0, 1, 0, 0, 0, 0, 0, 0)): one zero at the end
\* of the last dimension
PadLast(t) ==
    [shape |-> [t.shape EXCEPT ![Len(t.shape)] = @ + 1],
     at |-> [i \in Idx([t.shape EXCEPT ![Len(t.shape)] = @ + 1]) |->
               IF i[Len(t.shape)] <= t.shape[Len(t.shape)] THEN t.at[i] ELSE Zero]]

\* line 58: torch.arange(start=0, end=320 // 2, dtype=torch.float32)...half()
Arange == [py |-> "arange", start |-> 0, end |-> 320 \div 2, dtype |-> "half"]

\* params_ait and the exception raised so far, if any
NewParams == [exc |-> NoExc, params_ait |-> [k \in {} |-> Zero]]
Put(m, key, arr) ==
    [m EXCEPT !.params_ait =
        [k \in DOMAIN m.params_ait \cup {key} |-> IF k = key THEN arr ELSE m.params_ait[k]]]

\* lines 44-47 and 49-52: w1, w2 = arr.chunk(2, dim=0), and the two entries
SplitParam(m, key, arr) ==
    IF Len(arr.shape) = 0 THEN Raising(m, Raise("RuntimeError", "chunk"))
    ELSE IF Len(Chunk(arr)) # 2 THEN Raising(m, Raise("ValueError", "unpack"))
    ELSE Put(Put(m, Underscored(key), Chunk(arr)[1]),
             Gated(Underscored(key)), Chunk(arr)[2])

\* lines 41-53: the loop body
MapParam(m, key, arr) ==
    IF ~Running(m) THEN m
    ELSE IF Len(arr.shape) = 4 THEN Put(m, Underscored(key), Permute0231(arr))
    ELSE IF EndsWith(key, FfProjWeight) THEN SplitParam(m, key, arr)
    ELSE IF EndsWith(key, FfProjBias) THEN SplitParam(m, key, arr)
    ELSE Put(m, Underscored(key), arr)

RECURSIVE MapLoop(_, _, _)
\* line 40: for key, arr in pt_params.items(), from the k-th on
MapLoop(m, pt_params, k) ==
    IF k > Len(pt_params) THEN m
    ELSE MapLoop(MapParam(m, pt_params[k].key, pt_params[k].arr), pt_params, k + 1)

\* lines 54-56
PadCond(m) ==
    IF ~Running(m) THEN m
    ELSE IF CondKey \notin DOMAIN m.params_ait THEN Raising(m, Raise("KeyError", "conv_in"))
    ELSE IF Len(m.params_ait[CondKey].shape) < 4 THEN Raising(m, Raise("RuntimeError", "pad"))
    ELSE Put(m, CondKey, PadLast(m.params_ait[CondKey]))

\* lines 57-59
PutArange(m) == IF ~Running(m) THEN m ELSE Put(m, ArangeKey, Arange)

\* line 60, or the exception that ended the call
MapOutcome(m) ==
    IF Running(m) THEN Returned([py |-> "dict", v |-> m.params_ait]) ELSE Raised(m.exc)

map_controlnet_params(pt_params) ==
    MapOutcome(PutArange(PadCond(MapLoop(NewParams, pt_params, 1))))

\* a model's named parameters, about to be mapped
InitMap ==
    /\ phase = "params"
    /\ args \in {[pt_params |-> l] : l \in ParamLists}
    /\ outcome = NoOutcome
    /\ modules = [m \in ModuleNames |-> Absent]
    /\ ctor = NoCtor
    /\ batch = 0
    /\ log = <<>>
    /\ ref = NoRef

Map ==
    /\ phase = "params"
    /\ phase' = "mapped"
    /\ outcome' = map_controlnet_params(args.pt_params)
    /\ UNCHANGED <<modules, ctor, batch, args, log, ref>>

NextMap == Map

SpecMap == InitMap /\ [][NextMap]_vars

\* ================================================================= claims
Ops(l) == [i \in DOMAIN l |-> l[i].op]
At(l, ops) == {i \in DOMAIN l : l[i].op \in ops}
ModuleOps == {"clip", "controlnet", "unet", "vae"}
SchedulerOps == {"set_timesteps", "scale_model_input", "step"}

RaisedWith(o, type) == o.status = "raised" /\ o.exc.type = type

\* a step of the model that is one whole call of the pipeline
CallStep == phase' = "called" /\ (phase = "idle" \/ (ref'.active /\ ~ref.active))

StrOrList(p) == p.py \in {"str", "list"}
Divisible(a) == a.height % 8 = 0 /\ a.width % 8 = 0

\* C1: a call whose prompt is neither a str nor a list raises ValueError
\* having invoked nothing (no tokenizer, module or scheduler) and leaves
\* self.batch as it was, whatever the other arguments are.
C1_BadPromptRaisesFirst ==
    [][(CallStep /\ ~StrOrList(args'.prompt))
        => /\ RaisedWith(outcome', "ValueError")
           /\ log' = <<>>
           /\ batch' = batch]_vars

\* reached: such a call, with other arguments invalid too, on a pipeline
\* whose self.batch an earlier call had set to 2
C1_Witness ==
    /\ phase = "called" /\ ~StrOrList(args.prompt)
    /\ args.height = 12 /\ args.guidance_scale = 2 /\ IsList(args.negative_prompt)
    /\ RaisedWith(outcome, "ValueError") /\ batch = 2

\* C2: with a str or list prompt, height or width not divisible by 8 makes
\* the call raise ValueError having invoked nothing, self.batch unchanged;
\* when both are divisible by 8 the dimension guard does not raise.
C2_BadDimsRaiseFirst ==
    [][(CallStep /\ StrOrList(args'.prompt))
        => /\ ~Divisible(args') =>
                /\ RaisedWith(outcome', "ValueError")
                /\ log' = <<>>
                /\ batch' = batch
           /\ Divisible(args') => outcome'.exc # DimensionError]_vars

\* reached: a str prompt (batch size 1) with only the width off, raising,
\* on a pipeline whose self.batch an earlier call had set to 2
C2_Witness ==
    /\ phase = "called" /\ IsStr(args.prompt)
    /\ args.height = 8 /\ args.width = 12
    /\ RaisedWith(outcome, "ValueError") /\ log = <<>> /\ batch = 2

Guided(a) == a.guidance_scale > 1
NoOps(l, ops) == At(l, ops) = {}
TypeMismatch(a) ==
    /\ StrOrList(a.prompt) /\ ~IsNone(a.negative_prompt)
    /\ a.prompt.py # a.negative_prompt.py

\* C3 as stated: with guidance on and a negative_prompt of another type
\* than the prompt, the call raises TypeError and runs no conditioning
\* network, denoising network, scheduler operation or decoder.
C3_Original ==
    (phase = "called" /\ Guided(args) /\ TypeMismatch(args))
        => /\ RaisedWith(outcome, "TypeError")
           /\ NoOps(log, {"controlnet", "unet", "vae"} \cup SchedulerOps)

\* C3, amended: the same, for calls whose height and width are divisible
\* by 8 (otherwise the dimension check raises ValueError first); the part
\* about the networks, the scheduler and the decoder holds in either case.
C3_TypeMismatchRaises ==
    (phase = "called" /\ Guided(args) /\ TypeMismatch(args))
        => /\ Divisible(args) => RaisedWith(outcome, "TypeError")
           /\ NoOps(log, {"controlnet", "unet", "vae"} \cup SchedulerOps)

\* reached: a list prompt with a str negative_prompt, TypeError raised after
\* the text encoder ran on the prompt
C3_Witness ==
    /\ phase = "called" /\ Guided(args) /\ Divisible(args)
    /\ IsList(args.prompt) /\ IsStr(args.negative_prompt)
    /\ RaisedWith(outcome, "TypeError") /\ Ops(log) = <<"tokenizer", "clip">>

BothLists(a) == IsList(a.prompt) /\ IsList(a.negative_prompt)
BothStrs(a) == IsStr(a.prompt) /\ IsStr(a.negative_prompt)
LengthsDiffer(a) == Len(a.prompt.v) # Len(a.negative_prompt.v)
LengthError == Raise("ValueError", "negative_prompt batch size")

\* C4 as stated: with guidance on and both prompts lists, the call raises
\* ValueError exactly when the lengths differ, and then no denoising step
\* and no decoder run happens; with two strings no length error is raised.
C4_Original ==
    /\ (phase = "called" /\ Guided(args) /\ BothLists(args))
          => /\ RaisedWith(outcome, "ValueError") <=> LengthsDiffer(args)
             /\ LengthsDiffer(args) => NoOps(log, {"scale_model_input", "controlnet", "unet", "step", "vae"})
    /\ (phase = "called" /\ BothStrs(args)) => outcome.exc # LengthError

\* C4, amended: with guidance on, both prompts lists and height and width
\* divisible by 8, the call raises the negative_prompt batch-size
\* ValueError exactly when the lengths differ (with equal lengths a
\* ValueError can still come from the latents shape check); whenever the
\* lengths differ the call raises ValueError with no denoising step and no
\* decoder run; with two strings no length error is raised.
C4_LengthMismatchRaises ==
    /\ (phase = "called" /\ Guided(args) /\ BothLists(args))
          => /\ Divisible(args) => (outcome.exc = LengthError <=> LengthsDiffer(args))
             /\ LengthsDiffer(args)
                  => /\ RaisedWith(outcome, "ValueError")
                     /\ NoOps(log, {"scale_model_input", "controlnet", "unet", "step", "vae"})
    /\ (phase = "called" /\ BothStrs(args)) => outcome.exc # LengthError

\* reached: two prompts against one negative prompt, the length error
\* raised after the text encoder ran on the prompt
C4_Witness ==
    /\ phase = "called" /\ Guided(args) /\ BothLists(args) /\ Divisible(args)
    /\ Len(args.prompt.v) = 2 /\ Len(args.negative_prompt.v) = 1
    /\ outcome.exc = LengthError /\ Ops(log) = <<"tokenizer", "clip">>

NegativePromptErrors ==
    {Raise("TypeError", "negative_prompt type"), LengthError}
ClipRuns(l) == At(l, {"clip"})
PromptIds(a) == Tokenize(Texts(a.prompt))

\* C5 as stated: in every call with guidance_scale <= 1, whatever the
\* negative_prompt, no negative-prompt error is raised, the text encoder
\* runs exactly once, on the prompt, and the invocations are those of the
\* same call with negative_prompt=None.
C5_Original ==
    (phase = "called" /\ args.guidance_scale <= 1)
        => /\ outcome.exc \notin NegativePromptErrors
           /\ Cardinality(ClipRuns(log)) = 1
           /\ \A i \in ClipRuns(log) : log[i].input_ids = PromptIds(args)
           /\ ref.active => (log = ref.log /\ outcome = ref.outcome)

\* C5, amended: the same, except that the text encoder runs exactly once
\* only when the prompt is a str or a list and height and width are
\* divisible by 8; a call that fails those checks does not run it at all.
C5_NegativePromptIgnored ==
    (phase = "called" /\ args.guidance_scale <= 1)
        => /\ outcome.exc \notin NegativePromptErrors
           /\ Cardinality(ClipRuns(log)) =
                (IF StrOrList(args.prompt) /\ Divisible(args) THEN 1 ELSE 0)
           /\ \A i \in ClipRuns(log) : log[i].input_ids = PromptIds(args)
           /\ ref.active => (log = ref.log /\ outcome = ref.outcome)

\* reached: an unguided call that returned, replayed with
\* negative_prompt=None, whose negative_prompt was a list of another
\* length than the str prompt
C5_Witness ==
    /\ phase = "called" /\ ref.active /\ args.guidance_scale = 1
    /\ IsStr(args.prompt)
    /\ IsList(ref.negative_prompt) /\ Len(ref.negative_prompt.v) = 2
    /\ IsNone(args.negative_prompt)
    /\ outcome.status = "returned" /\ ref.outcome.status = "returned"

\* the invocations of the compiled modules and of the scheduler, in order
Collaborators(l) == SelectSeq(l, LAMBDA e : e.op \in ModuleOps \cup SchedulerOps)

\* the texts of the negative prompt, or one empty string per prompt
NegativeIds(a) ==
    Tokenize(IF IsNone(a.negative_prompt)
             THEN [i \in 1..Len(Texts(a.prompt)) |-> EmptyText]
             ELSE Texts(a.negative_prompt))

\* one denoising round for timestep t at positions b+1..b+4 of c
IsRound(c, b, t) ==
    /\ c[b + 1].op = "scale_model_input" /\ c[b + 1].t = t
    /\ c[b + 2].op = "controlnet" /\ c[b + 2].t = t
    /\ c[b + 3].op = "unet" /\ c[b + 3].t = t
    /\ c[b + 3].down = c[b + 2].down /\ c[b + 3].mid = c[b + 2].mid
    /\ c[b + 4].op = "step" /\ c[b + 4].t = t

\* C6: a call that returns has invoked, in this order and nothing else:
\* the text encoder on the prompt, once more on the negative or empty
\* prompt iff guidance_scale > 1, set_timesteps, then per timestep of the
\* schedule, in schedule order, scale_model_input, conditioning network,
\* denoising network (given that round's residuals), scheduler.step, and
\* last the decoder, once.
C6_InvocationOrder ==
    (phase = "called" /\ outcome.status = "returned") =>
        LET c == Collaborators(log)
            e == IF args.guidance_scale > 1 THEN 2 ELSE 1
            ts == c[e + 1].timesteps
        IN /\ Len(c) >= e + 2
           /\ c[1].op = "clip" /\ c[1].input_ids = PromptIds(args)
           /\ e = 2 => (c[2].op = "clip" /\ c[2].input_ids = NegativeIds(args))
           /\ c[e + 1].op = "set_timesteps"
           /\ Len(c) = e + 1 + 4 * Len(ts) + 1
           /\ \A k \in 1..Len(ts) : IsRound(c, e + 1 + 4 * (k - 1), ts[k])
           /\ c[Len(c)].op = "vae"

\* reached: a guided call with a negative prompt per prompt and a
\* schedule of two timesteps that returned
C6_Witness ==
    /\ phase = "called" /\ outcome.status = "returned"
    /\ args.guidance_scale = 2 /\ args.num_inference_steps = MaxSteps
    /\ BothLists(args) /\ Len(args.prompt.v) = 2
    /\ Cardinality(At(log, {"step"})) = MaxSteps

\* the first and second half of a batch
FirstHalf(x) == SubSeq(x, 1, Len(x) \div 2)
SecondHalf(x) == SubSeq(x, Len(x) \div 2 + 1, Len(x))

\* the round that ends in the scheduler.step at position i of the log
\* starts at scale_model_input (i - 3) and runs the denoising network at i - 1
GuidedRound(l, i, a) ==
    LET out == l[i - 1].out
        u == FirstHalf(out)
        c == SecondHalf(out)
        clips == Collaborators(l)
    IN /\ Len(l[i].model_output) = Len(u) /\ Len(c) = Len(u)
       /\ \A j \in DOMAIN u :
            l[i].model_output[j] = u[j] + a.guidance_scale * (c[j] - u[j])
       \* the first half of the batch is the negative/empty prompt's
       /\ clips[1].input_ids = PromptIds(a) /\ clips[2].input_ids = NegativeIds(a)
       /\ FirstHalf(l[i - 1].input2) = clips[2].out
       /\ SecondHalf(l[i - 1].input2) = clips[1].out
       /\ l[i - 3].sample = l[i].sample \o l[i].sample

UnguidedRound(l, i) ==
    /\ l[i].model_output = l[i - 1].out
    /\ l[i - 3].sample = l[i].sample

\* C7: in every denoising round, with guidance_scale > 1 scheduler.step is
\* handed u + guidance_scale * (c - u), u the first and c the second half
\* of the denoising network's output, the network's first half of inputs
\* carrying the negative/empty-prompt embeddings and the second half the
\* prompt embeddings; with guidance_scale <= 1 it is handed the network's
\* output as is, and the latents are not duplicated.
C7_GuidanceBlend ==
    phase = "called" =>
        \A i \in At(log, {"step"}) :
            /\ i > 3 /\ log[i - 1].op = "unet" /\ log[i - 3].op = "scale_model_input"
            /\ IF args.guidance_scale > 1
               THEN GuidedRound(log, i, args)
               ELSE UnguidedRound(log, i)

\* reached: a guided call, two prompts, that went through two rounds
C7_Witness ==
    /\ phase = "called" /\ args.guidance_scale = 3 /\ outcome.status = "returned"
    /\ IsList(args.prompt) /\ Len(args.prompt.v) = 2 /\ IsList(args.negative_prompt)
    /\ Cardinality(At(log, {"step"})) = 2

IsBoolList(x) == x.py = "list" /\ \A i \in DOMAIN x.v : x.v[i] \in BOOLEAN
ImageCount(x) == Len(x.v)

\* the images a returned call generated: the decoder's output, post-processed
GeneratedImages(l) ==
    LET vae == l[CHOOSE i \in At(l, {"vae"}) : TRUE] IN PostProcess(vae.out)

\* C8: with return_dict False a returned call yields a tuple of the
\* generated images and a list of bools, one per image (the nsfw flags);
\* with return_dict True a StableDiffusionPipelineOutput with the same two.
C8_ReturnValue ==
    (phase = "called" /\ outcome.status = "returned") =>
        LET r == outcome.value IN
        IF ~args.return_dict
        THEN /\ r.py = "tuple" /\ Len(r.v) = 2
             /\ r.v[1].v = GeneratedImages(log)
             /\ IsBoolList(r.v[2]) /\ Len(r.v[2].v) = ImageCount(r.v[1])
        ELSE /\ r.py = "StableDiffusionPipelineOutput"
             /\ r.images.v = GeneratedImages(log)
             /\ IsBoolList(r.nsfw_content_detected)
             /\ Len(r.nsfw_content_detected.v) = ImageCount(r.images)

\* what does hold of the return value: the second element is None
C8_ReturnsNone ==
    (phase = "called" /\ outcome.status = "returned") =>
        LET r == outcome.value IN
        IF ~args.return_dict
        THEN r.py = "tuple" /\ r.v[1].v = GeneratedImages(log) /\ IsNone(r.v[2])
        ELSE /\ r.py = "StableDiffusionPipelineOutput"
             /\ r.images.v = GeneratedImages(log) /\ IsNone(r.nsfw_content_detected)

\* the stages before the latents are looked at let the call through
PassesPromptChecks(a) ==
    /\ StrOrList(a.prompt) /\ Divisible(a)
    /\ (Guided(a) /\ ~IsNone(a.negative_prompt))
         => /\ a.prompt.py = a.negative_prompt.py
            /\ IsList(a.prompt) => ~LengthsDiffer(a)

ExpectedShape(a) ==
    <<(IF IsStr(a.prompt) THEN 1 ELSE Len(a.prompt.v)), 4, a.height \div 8, a.width \div 8>>

InitialSample(a) == [i \in DOMAIN a.latents.rows |-> a.latents.rows[i] * InitNoiseSigma]

\* the three cases of C9, for a call that ended
LatentsUsed(a, l) ==
    /\ NoOps(l, {"randn"})
    /\ \A i \in At(l, {"step"}) :
         (\A j \in At(l, {"step"}) : i <= j) => l[i].sample = InitialSample(a)
LatentsRejected(o, l) ==
    /\ RaisedWith(o, "ValueError")
    /\ NoOps(l, SchedulerOps \cup {"controlnet", "unet", "vae"})
LatentsSampled(a, l) ==
    /\ Cardinality(At(l, {"randn"})) = 1
    /\ \A i \in At(l, {"randn"}) :
         l[i].shape = ExpectedShape(a) /\ l[i].generator = a.generator

\* C9 as stated: supplied latents of shape (batch_size, 4, height // 8,
\* width // 8) are the initial latents and nothing is sampled; supplied
\* latents of another shape make the call raise ValueError before
\* set_timesteps, any round and the decoder; without supplied latents,
\* latents of that shape are sampled with the supplied generator.
C9_Original ==
    (phase = "called" /\ StrOrList(args.prompt)) =>
        IF IsNone(args.latents) THEN LatentsSampled(args, log)
        ELSE IF args.latents.shape = ExpectedShape(args) THEN LatentsUsed(args, log)
        ELSE LatentsRejected(outcome, log)

\* C9, amended: the same for calls that pass the prompt type, dimension and
\* negative-prompt checks, which come first; a call that fails one of
\* them raises that check's error and neither samples nor uses latents.
C9_Latents ==
    (phase = "called" /\ StrOrList(args.prompt)) =>
        IF ~PassesPromptChecks(args)
        THEN /\ outcome.status = "raised"
             /\ NoOps(log, {"randn", "step", "vae"} \cup SchedulerOps)
        ELSE IF IsNone(args.latents) THEN LatentsSampled(args, log)
        ELSE IF args.latents.shape = ExpectedShape(args)
        THEN LatentsUsed(args, log) /\ ~NoOps(log, {"step"})
        ELSE LatentsRejected(outcome, log)

\* reached: latents for one prompt supplied to a call with two, rejected
\* after the text encoder ran and before the scheduler was touched
C9_Witness ==
    /\ phase = "called" /\ PassesPromptChecks(args)
    /\ IsList(args.prompt) /\ Len(args.prompt.v) = 2
    /\ ~IsNone(args.latents) /\ args.latents.shape = <<1, 4, 1, 1>>
    /\ outcome.exc = Raise("ValueError", "latents shape")
    /\ ClipRuns(log) # {}

\* the order __init__ processes the modules in
CtorOrder == <<ControlNetName, ClipName, UnetName, VaeName>>
ModuleOpsOf(l) == SelectSeq(l, LAMBDA e : e.op \in {"load", "bind", "fold"})

\* load, bind, fold of each module, once each, module after module
ProtocolFollowed(l) ==
    /\ Len(ModuleOpsOf(l)) = 3 * Len(CtorOrder)
    /\ \A k \in DOMAIN CtorOrder :
         /\ ModuleOpsOf(l)[3 * k - 2].op = "load"
         /\ ModuleOpsOf(l)[3 * k - 1].op = "bind"
         /\ ModuleOpsOf(l)[3 * k].op = "fold"
         /\ \A j \in 0..2 : ModuleOpsOf(l)[3 * k - j].mod = CtorOrder[k]

\* the file <workdir>/<model name>/test.so
ExpectedFile(workdir, m) == NormPath(PathJoin(PathJoin(workdir, <<m>>), <<"test.so">>))

\* C10: once constructed, with or without a checkpoint file, the
\* constructor has loaded, bound and folded each of the four modules once,
\* in that order and module after module; every module is folded before
\* any run; each module was loaded from <workdir>/<model name>/test.so for
\* the workdir given to the constructor.
C10_ConstructionProtocol ==
    phase # "new" =>
        /\ ProtocolFollowed(ctor.log)
        /\ \A m \in ModuleNames : modules[m].state = "folded"
        /\ \A m \in ModuleNames :
             NormPath(modules[m].path) = ExpectedFile(ctor.workdir, m)

\* what does hold: the protocol, and the workdir for all but ControlNet
C10_ProtocolOnly ==
    phase # "new" =>
        /\ ProtocolFollowed(ctor.log)
        /\ \A m \in ModuleNames : modules[m].state = "folded"
        /\ \A m \in ModuleNames \ {ControlNetName} :
             NormPath(modules[m].path) = ExpectedFile(ctor.workdir, m)
        /\ NormPath(modules[ControlNetName].path) = ExpectedFile(DotTmp, ControlNetName)

\* (N, C, H, W) seen as (N, H, W, C): e[n, h, w, c] = t[n, c, h, w]
IsNHWC(e, t) ==
    /\ e.shape = <<t.shape[1], t.shape[3], t.shape[4], t.shape[2]>>
    /\ DOMAIN e.at = Idx(e.shape)
    /\ \A n \in 1..t.shape[1], c \in 1..t.shape[2], h \in 1..t.shape[3], w \in 1..t.shape[4] :
         e.at[<<n, h, w, c>>] = t.at[<<n, c, h, w>>]

\* e is t with one more, zero, position at the end of the last dimension
IsEnlarged(e, t) ==
    /\ Len(t.shape) >= 1
    /\ e.shape = [t.shape EXCEPT ![Len(t.shape)] = @ + 1]
    /\ DOMAIN e.at = Idx(e.shape)
    /\ \A i \in Idx(t.shape) : e.at[i] = t.at[i]

\* the halves of t along dimension 0, the first the larger when they differ
HalfRows(t) == (t.shape[1] + 1) \div 2
IsFirstHalf(e, t) ==
    /\ e.shape = [t.shape EXCEPT ![1] = HalfRows(t)]
    /\ \A i \in Idx(e.shape) : e.at[i] = t.at[i]
IsSecondHalf(e, t) ==
    /\ e.shape = [t.shape EXCEPT ![1] = @ - HalfRows(t)]
    /\ \A i \in Idx(e.shape) : e.at[i] = t.at[[i EXCEPT ![1] = @ + HalfRows(t)]]

UnderscoredName(key) == [j \in DOMAIN key |-> IF key[j] = "." THEN "_" ELSE key[j]]
GateName(key) == [j \in DOMAIN key |-> IF key[j] = "proj" THEN "gate" ELSE key[j]]
IsSplit(q) ==
    /\ Len(q.arr.shape) # 4
    /\ \/ EndsWith(q.key, FfProjWeight)
       \/ EndsWith(q.key, FfProjBias)

\* the keys the claim gives parameter q, and how many
KeysOf(q) ==
    IF IsSplit(q) THEN {UnderscoredName(q.key), GateName(UnderscoredName(q.key))}
    ELSE {UnderscoredName(q.key)}
RECURSIVE EntryCount(_)
EntryCount(l) ==
    IF l = <<>> THEN 0 ELSE (IF IsSplit(l[1]) THEN 2 ELSE 1) + EntryCount(Tail(l))

\* what the claim has parameter q yield in the dict d; the conv_in entry is
\* the one enlarged afterwards
Holds(d, key, t) == IF key = CondKey THEN IsEnlarged(d[key], t) ELSE d[key] = t
MappedAsClaimed(d, q) ==
    /\ KeysOf(q) \subseteq DOMAIN d
    /\ IF Len(q.arr.shape) = 4
       THEN \/ UnderscoredName(q.key) # CondKey /\ IsNHWC(d[UnderscoredName(q.key)], q.arr)
            \/ /\ UnderscoredName(q.key) = CondKey
               /\ d[CondKey].shape = <<q.arr.shape[1], q.arr.shape[3], q.arr.shape[4], q.arr.shape[2] + 1>>
               /\ \A n \in 1..q.arr.shape[1], c \in 1..q.arr.shape[2],
                     h \in 1..q.arr.shape[3], w \in 1..q.arr.shape[4] :
                        d[CondKey].at[<<n, h, w, c>>] = q.arr.at[<<n, c, h, w>>]
       ELSE IF IsSplit(q)
       THEN /\ Len(q.arr.shape) >= 1
            /\ IsFirstHalf(d[UnderscoredName(q.key)], q.arr)
            /\ IsSecondHalf(d[GateName(UnderscoredName(q.key))], q.arr)
            /\ \A k \in DOMAIN d : d[k] # q.arr
       ELSE Holds(d, UnderscoredName(q.key), q.arr)

\* all of the claim, of the list l of named parameters and the outcome o
AllAsClaimed(l, o) ==
    /\ o.status = "returned"
    /\ \A j \in DOMAIN l : MappedAsClaimed(o.value.v, l[j])
    /\ DOMAIN o.value.v = UNION {KeysOf(l[j]) : j \in DOMAIN l} \cup {ArangeKey}
    /\ Cardinality(DOMAIN o.value.v) = EntryCount(l) + 1
    /\ o.value.v[ArangeKey] = Arange
    /\ CondKey \in DOMAIN o.value.v
    /\ \E j \in DOMAIN l :
         /\ UnderscoredName(l[j].key) = CondKey
         /\ Len(l[j].arr.shape) >= 1
         /\ o.value.v[CondKey].shape[Len(l[j].arr.shape)] =
              (IF Len(l[j].arr.shape) = 4 THEN l[j].arr.shape[2]
               ELSE l[j].arr.shape[Len(l[j].arr.shape)]) + 1

KeysDistinct(l) ==
    /\ \A i, j \in DOMAIN l : i # j => KeysOf(l[i]) \cap KeysOf(l[j]) = {}
    /\ \A j \in DOMAIN l : ArangeKey \notin KeysOf(l[j])
HasCond(l) ==
    \E j \in DOMAIN l : UnderscoredName(l[j].key) = CondKey /\ Len(l[j].arr.shape) = 4
Splittable(l) ==
    \A j \in DOMAIN l : IsSplit(l[j]) => (Len(l[j].arr.shape) >= 1 /\ l[j].arr.shape[1] >= 2)
WellNamed(l) == KeysDistinct(l) /\ HasCond(l) /\ Splittable(l)

====
